---- MODULE Spec2Model ----
(***************************************************************************)
(* State machine of src/src/App.tsx: the App component's three pieces of   *)
(* React state (wallet, provider, signer), the provider bootstrap effect,  *)
(* the asynchronous connectWallet callback (one step per await), and the   *)
(* EIP-1193 event subscription effect with its two handlers.               *)
(*                                                                         *)
(* JavaScript is run-to-completion: every action below is one synchronous  *)
(* stretch of code between two awaits (or one whole handler).  Optional    *)
(* values (T | null) are encoded as sequences: <<>> is null, <<v>> is v.   *)
(***************************************************************************)
EXTENDS Integers, Sequences, FiniteSets, TLC

\* ------------------------------------------------------------------ bounds
\* Total number of connectWallet calls explored in one behaviour.
MaxInv == 2

\* ------------------------------------------------------- optional values
Null == <<>>
Some(v) == <<v>>

\* ------------------------------------------------------ environment data
\* Thrown values a rejected provider call can carry: an Error with a
\* message, a value without any message.
Thrown == {Some("User rejected the request"), Null}

\* Results of eth_requestAccounts / payloads of accountsChanged: address
\* lists, and an absent list (the code tests !accounts).
AccountLists == {Some(<<>>), Some(<<"0xA">>), Some(<<"0xB", "0xA">>), Null}

\* network.chainId as ethers returns it: a bigint.
BigInt(n) == [bigint |-> n]
ChainIds == {BigInt(1), BigInt(11155111)}

\* getBalance results: a bigint amount of wei, written in decimal digits
\* (1.5 ETH and 5 wei).
Balances == {<<1, 5, 0, 0, 0, 0, 0, 0, 0, 0, 0, 0, 0, 0, 0, 0, 0, 0, 0>>, <<5>>}

\* Payloads of chainChanged (a hex chain id string; the handler ignores it).
ChainHex == {"0x1", "0xaa36a7"}

\* ------------------------------------------------------------- messages
\* The four message literals of the source (lines 51, 77, 100, 142), named
\* by what they say; the source text is Russian.
NoWalletMsg == "wallet not found, install MetaMask"
NoProviderMsg == "provider not initialised (no window.ethereum)"
NoAccountsMsg == "no accounts available"
FallbackMsg == "error while connecting the wallet"

\* ------------------------------------------------------- pure functions
\* Number(network.chainId): bigint to number (exact below 2^53).
Number(b) == b.bigint

\* ethers' formatEther = formatUnits(value, 18): decimal string of
\* wei / 10^18, computed on the digit string.
EtherDecimals == 18

DigitChar(d) == <<"0", "1", "2", "3", "4", "5", "6", "7", "8", "9">>[d + 1]

RECURSIVE PadLeft(_, _)
PadLeft(ds, n) == IF Len(ds) >= n THEN ds ELSE PadLeft(<<0>> \o ds, n)

RECURSIVE StripTrailingZeros(_)
StripTrailingZeros(ds) ==
    IF Len(ds) > 1 /\ ds[Len(ds)] = 0
    THEN StripTrailingZeros(SubSeq(ds, 1, Len(ds) - 1))
    ELSE ds

formatEther(wei) ==
    LET padded == PadLeft(wei, EtherDecimals + 1)
        cut    == Len(padded) - EtherDecimals
        whole  == SubSeq(padded, 1, cut)
        frac   == StripTrailingZeros(SubSeq(padded, cut + 1, Len(padded)))
    IN  [i \in 1..Len(whole) |-> DigitChar(whole[i])]
          \o <<".">>
          \o [i \in 1..Len(frac) |-> DigitChar(frac[i])]

\* error?.message ?? fallback: the fallback replaces a missing message.
ErrorMessage(thrown) == IF thrown = Null THEN FallbackMsg ELSE thrown[1]

\* ----------------------------------------------------------------- state
VARIABLES
    phase,      \* "init": rendered once, effects not yet run; "mounted"; "unmounted"
    hasEth,     \* window.ethereum is present
    provider,   \* useState provider: Null or Some("BrowserProvider")
    rendered,   \* the provider value of the last committed render (the one the
                \* current connectWallet closure and the JSX were built from)
    wallet,     \* useState wallet: the WalletState record
    signer,     \* useState signer: Null or Some(signer handle)
    listeners,  \* handler pairs registered on window.ethereum, in order of
                \* registration; each holds the provider its connectWallet captured
    inv,        \* every connectWallet call so far, in order of start
    obs         \* history for the properties that compare a state with an
                \* earlier one: recorded under SpecH, switched off under Spec

vars == <<phase, hasEth, provider, rendered, wallet, signer, listeners, inv, obs>>

BrowserProvider == Some("BrowserProvider")

\* obs.mode: what is recorded ("off": nothing).  Under "before",
\* obs.before[i] is the data fields and the signer that call i found when it
\* was called.  Under "last", obs.last is the notification the last step
\* delivered to a subscribed handler ("none" for any other step), with the
\* number of calls started before it.  Under "script", obs.script is what
\* the provider answers to every call of a kind, and obs.after[i] is the
\* record as call i left it when it ended.
NoObs ==
    [mode |-> "off", before |-> <<>>, last |-> [op |-> "none", calls |-> 0],
     script |-> Null, after |-> <<>>]

\* useState initial value, lines 22-28.
InitialWallet ==
    [address |-> Null, chainId |-> Null, balanceEth |-> Null,
     status |-> "disconnected", error |-> Null]

Init ==
    /\ phase = "init"
    /\ hasEth \in BOOLEAN
    /\ provider = Null
    /\ rendered = Null
    /\ wallet = InitialWallet
    /\ signer = Null
    /\ listeners = <<>>
    /\ inv = <<>>
    /\ obs = NoObs

\* ------------------------------------------------------- state updaters
\* Each takes the previous WalletState (React's functional update) or the
\* values of one connectWallet call and gives the next WalletState.

\* Bootstrap effect without window.ethereum, lines 48-52.
BootstrapError(prev) ==
    [prev EXCEPT !.status = "error", !.error = Some(NoWalletMsg)]

\* connectWallet without a provider, lines 74-78.
NotInitialised(prev) ==
    [prev EXCEPT !.status = "error", !.error = Some(NoProviderMsg)]

\* Variant: the "connecting" update forgets to clear the previous error.
ConnectingKeepsError(prev) ==
    [prev EXCEPT !.status = "connecting"]

\* connectWallet, line 84.
Connecting(prev) ==
    [prev EXCEPT !.status = "connecting", !.error = Null]

\* Variant: the success update leaves the balance out.
ConnectedWithoutBalance(userAddress, network, balanceWei) ==
    [address |-> Some(userAddress),
     chainId |-> Some(Number(network.chainId)),
     balanceEth |-> Null,
     status |-> "connected",
     error |-> Null]

\* connectWallet, lines 126-132: the record built from one call's locals.
Connected(userAddress, network, balanceWei) ==
    [address |-> Some(userAddress),
     chainId |-> Some(Number(network.chainId)),
     balanceEth |-> Some(formatEther(balanceWei)),
     status |-> "connected",
     error |-> Null]

\* Variant: the catch block records the message and leaves the status.
FailedKeepsStatus(prev, thrown) ==
    [prev EXCEPT !.error = Some(ErrorMessage(thrown))]

\* Variant: the catch block rolls the data fields back to null.
FailedClearsData(prev, thrown) ==
    [address |-> Null, chainId |-> Null, balanceEth |-> Null,
     status |-> "error", error |-> Some(ErrorMessage(thrown))]

\* connectWallet's catch block, lines 139-143.
Failed(prev, thrown) ==
    [prev EXCEPT !.status = "error", !.error = Some(ErrorMessage(thrown))]

\* Variant: the reset clears the record and leaves the stored signer.
resetKeepsSigner(st) ==
    [st EXCEPT !.wallet = [address |-> Null, chainId |-> Null, balanceEth |-> Null,
                           status |-> "disconnected", error |-> Null]]

\* Variant: the reset spreads the previous record and only resets the
\* status and the error.
resetKeepsData(st) ==
    [st EXCEPT !.wallet.status = "disconnected", !.wallet.error = Null,
               !.signer = Null]

\* The mutable part a handler works on: st = [wallet, signer, inv].
\* resetWalletState, lines 58-67.
resetWalletState(st) ==
    [st EXCEPT !.wallet = [address |-> Null, chainId |-> Null, balanceEth |-> Null,
                           status |-> "disconnected", error |-> Null],
               !.signer = Null]

\* One connectWallet call: its captured provider, its position (the await
\* it is suspended at, or how it ended), the locals it has assigned so far
\* and the value its catch block caught.
NewCall(prov, pc) ==
    [prov |-> prov, pc |-> pc, accounts |-> Null,
     userAddress |-> Null, nextSigner |-> Null, network |-> Null,
     balanceWei |-> Null, caught |-> Null]

\* Variant: connectWallet doubles as a disconnect when already connected.
connectWalletToggles(st, prov) ==
    IF prov = Null
    THEN [st EXCEPT !.wallet = NotInitialised(st.wallet),
                    !.inv = Append(st.inv, NewCall(prov, "returned"))]
    ELSE IF st.wallet.status = "connected"
    THEN [resetWalletState(st) EXCEPT !.inv = Append(st.inv, NewCall(prov, "returned"))]
    ELSE [st EXCEPT !.wallet = Connecting(st.wallet),
                    !.inv = Append(st.inv, NewCall(prov, "accounts"))]

\* Variant: starting a call aborts the calls still in flight.
connectWalletCancelsOlder(st, prov) ==
    IF prov = Null
    THEN [st EXCEPT !.wallet = NotInitialised(st.wallet),
                    !.inv = Append(st.inv, NewCall(prov, "returned"))]
    ELSE [st EXCEPT !.wallet = Connecting(st.wallet),
                    !.inv = Append([k \in 1..Len(st.inv) |->
                                       IF st.inv[k].pc \in {"accounts", "signer",
                                                            "network", "balance"}
                                       THEN [st.inv[k] EXCEPT !.pc = "failed"]
                                       ELSE st.inv[k]],
                                   NewCall(prov, "accounts"))]

\* Variant: the account request is issued without the "connecting" update.
connectWalletRequestsFirst(st, prov) ==
    IF prov = Null
    THEN [st EXCEPT !.wallet = NotInitialised(st.wallet),
                    !.inv = Append(st.inv, NewCall(prov, "returned"))]
    ELSE [st EXCEPT !.inv = Append(st.inv, NewCall(prov, "accounts"))]

\* connectWallet up to its first await, lines 70-95: the provider check, the
\* "connecting" update, and the eth_requestAccounts request left pending.
connectWallet(st, prov) ==
    IF prov = Null
    THEN [st EXCEPT !.wallet = NotInitialised(st.wallet),
                    !.inv = Append(st.inv, NewCall(prov, "returned"))]
    ELSE [st EXCEPT !.wallet = Connecting(st.wallet),
                    !.inv = Append(st.inv, NewCall(prov, "accounts"))]

\* Variant: the handler tests only for an absent list, not for an empty one.
handleAccountsChangedNoLength(st, prov, accounts) ==
    IF accounts = Null
    THEN resetWalletState(st)
    ELSE connectWallet(st, prov)

\* handleAccountsChanged, lines 155-167, as registered with a connectWallet
\* that captured prov.
handleAccountsChanged(st, prov, accounts) ==
    IF accounts = Null \/ Len(accounts[1]) = 0
    THEN resetWalletState(st)
    ELSE connectWallet(st, prov)

\* Variant: the handler re-reads only while a wallet is connected.
handleChainChangedIfConnected(st, prov, chainIdHex) ==
    IF st.wallet.status = "connected" THEN connectWallet(st, prov) ELSE st

\* handleChainChanged, lines 170-175.
handleChainChanged(st, prov, chainIdHex) == connectWallet(st, prov)

\* eth emits an event: every registered handler runs, in registration order.
RECURSIVE EmitAccountsChanged(_, _, _)
EmitAccountsChanged(st, ls, accounts) ==
    IF ls = <<>> THEN st
    ELSE EmitAccountsChanged(handleAccountsChanged(st, Head(ls).prov, accounts),
                             Tail(ls), accounts)

RECURSIVE EmitChainChanged(_, _, _)
EmitChainChanged(st, ls, chainIdHex) ==
    IF ls = <<>> THEN st
    ELSE EmitChainChanged(handleChainChanged(st, Head(ls).prov, chainIdHex),
                          Tail(ls), chainIdHex)

State == [wallet |-> wallet, signer |-> signer, inv |-> inv]

Commit(st) ==
    /\ wallet' = st.wallet
    /\ signer' = st.signer
    /\ inv' = st.inv

\* ------------------------------------------------------------ rendering
\* Line 197.
expectedChainId == 1

\* Lines 200-201.
isWrongNetwork ==
    wallet.chainId # Null /\ wallet.chainId[1] # expectedChainId

\* Variant: the warning is rendered outside the connected panel.
wrongNetworkWarningAnyStatus == isWrongNetwork

\* The warning paragraph, lines 261 and 276-280: inside the panel rendered
\* for status connected.
wrongNetworkWarning == wallet.status = "connected" /\ isWrongNetwork

\* The connect button, lines 239-255.
connectAffordance == rendered # Null /\ wallet.status = "disconnected"

\* EIP-1193 providers are event emitters (on / removeListener), line 184.
HasRemoveListener == TRUE

\* Variant: the effect subscribes without testing for window.ethereum.
SubscribeUnguarded(ls, prov) == Append(ls, [prov |-> prov])

\* The subscription effect body, lines 150-180, given the handlers already
\* registered and the connectWallet of the render it belongs to.
Subscribe(ls, prov) == IF hasEth THEN Append(ls, [prov |-> prov]) ELSE ls

\* Variant: the effect returns no cleanup.
UnsubscribeNothing(ls) == ls

\* The effect's cleanup, lines 183-188: removes the pair it registered (the
\* most recent one) when the provider can remove listeners.
Unsubscribe(ls) ==
    IF ls # <<>> /\ HasRemoveListener THEN SubSeq(ls, 1, Len(ls) - 1) ELSE ls

\* -------------------------------------------------------------- history
Snapshot(w, s) ==
    [address |-> w.address, chainId |-> w.chainId, balanceEth |-> w.balanceEth,
     signer |-> s]

\* Conjoined to every action: extends the history by the calls this step
\* started (handlers are registered one pair at a time, so a step starts at
\* most one call here and it found the state the step started from).
EndedPc == {"done", "failed", "returned"}

\* The awaits of connectWallet in order, lines 93, 109, 114, 117.
AwaitNo(pc) ==
    CASE pc = "accounts" -> 1 [] pc = "signer" -> 2 [] pc = "network" -> 3
      [] pc = "balance" -> 4 [] OTHER -> 5

\* How many of its awaits call c has seen resolve.
Resolved(c) ==
    (IF c.userAddress # Null THEN 1 ELSE 0) + (IF c.nextSigner # Null THEN 1 ELSE 0)
      + (IF c.network # Null THEN 1 ELSE 0) + (IF c.balanceWei # Null THEN 1 ELSE 0)

\* Call c has received only what the script sc makes the provider answer:
\* sc.rejectAt names the await the provider rejects with sc.thrown ("none":
\* it rejects nothing).
Conforms(c, sc) ==
    LET noAccounts == sc.accounts = Null \/ sc.accounts[1] = <<>>
        stop == IF sc.rejectAt # "accounts" /\ noAccounts THEN 1 ELSE AwaitNo(sc.rejectAt)
        thrown == IF sc.rejectAt # "accounts" /\ noAccounts
                  THEN Some(NoAccountsMsg) ELSE sc.thrown
    IN  \/ c.pc = "returned"
        \/ /\ c.accounts \in {Null, sc.accounts}
           /\ c.network \in {Null, Some([chainId |-> sc.chainId])}
           /\ c.balanceWei \in {Null, Some(sc.balance)}
           /\ Resolved(c) < stop
           /\ c.pc = "failed" => Resolved(c) = stop - 1 /\ c.caught = Some(thrown)

\* Under "script": the provider follows the script, calls run one after the
\* other, and no reset comes between them.
Scripted(op) ==
    /\ ~(op = "accountsChanged empty" /\ inv # <<>>)
    /\ Cardinality({i \in 1..Len(inv') : inv'[i].pc \notin EndedPc}) <= 1
    /\ \A i \in 1..Len(inv') : Conforms(inv'[i], obs.script[1])

Observe(op) ==
    /\ obs' = CASE obs.mode = "before" ->
                  [obs EXCEPT !.before =
                       @ \o [k \in 1..(Len(inv') - Len(inv)) |-> Snapshot(wallet, signer)]]
               [] obs.mode = "last" ->
                  [obs EXCEPT !.last =
                       IF op = "none" \/ listeners = <<>> THEN NoObs.last
                       ELSE [op |-> op, calls |-> Len(inv)]]
               [] obs.mode = "reset" ->
                  LET inFlight == {i \in 1..Len(inv) : inv[i].pc \notin EndedPc}
                  IN  [obs EXCEPT !.last =
                           IF op = "accountsChanged empty" /\ listeners # <<>>
                              /\ inFlight # {}
                           THEN [op |-> op,
                                 calls |-> CHOOSE m \in inFlight :
                                               \A k \in inFlight : k <= m]
                           ELSE IF \A i \in inFlight : i > @.calls
                           THEN NoObs.last ELSE @]
               [] obs.mode = "script" ->
                  [obs EXCEPT !.after =
                       [i \in 1..Len(inv') |->
                           IF i <= Len(obs.after) /\ obs.after[i] # Null THEN obs.after[i]
                           ELSE IF inv'[i].pc \in EndedPc THEN Some(wallet')
                           ELSE Null]]
               [] OTHER -> obs
    /\ obs.mode = "script" => Scripted(op)

\* --------------------------------------------------------------- actions
\* First commit: both effects run back to back, lines 34-54 and 150-189.
Mount ==
    /\ phase = "init"
    /\ phase' = "mounted"
    /\ provider' = IF hasEth THEN BrowserProvider ELSE provider
    /\ wallet' = IF hasEth THEN wallet ELSE BootstrapError(wallet)
    /\ listeners' = Subscribe(listeners, rendered)
    /\ UNCHANGED <<hasEth, rendered, signer, inv>>
    /\ Observe("none")

\* The render that follows setProvider: connectWallet is rebuilt around the
\* new provider (line 145), so the subscription effect is cleaned up and
\* run again (line 189).
Rerender ==
    /\ phase = "mounted"
    /\ rendered # provider
    /\ rendered' = provider
    /\ listeners' = Subscribe(Unsubscribe(listeners), provider)
    /\ UNCHANGED <<phase, hasEth, provider, wallet, signer, inv>>
    /\ Observe("none")

\* The view is torn down: the last subscription effect's cleanup runs.  Calls
\* in flight go on; wallet and signer stand for what setWallet and setSigner
\* were last given, so their later updates are still recorded here.
Unmount ==
    /\ phase = "mounted"
    /\ phase' = "unmounted"
    /\ listeners' = Unsubscribe(listeners)
    /\ UNCHANGED <<hasEth, provider, rendered, wallet, signer, inv>>
    /\ Observe("none")

\* A wallet extension injects window.ethereum after the page was loaded.
InjectEth ==
    /\ ~hasEth
    /\ hasEth' = TRUE
    /\ UNCHANGED <<phase, provider, rendered, wallet, signer, listeners, inv>>
    /\ Observe("none")

\* The user presses the connect button (onClick={connectWallet}, line 241).
UserConnect ==
    /\ phase = "mounted"
    /\ connectAffordance
    /\ Len(inv) < MaxInv
    /\ Commit(connectWallet(State, rendered))
    /\ UNCHANGED <<phase, hasEth, provider, rendered, listeners>>
    /\ Observe("none")

\* window.ethereum emits accountsChanged(accounts).
AccountsChangedWith(accounts) ==
    /\ hasEth
    /\ LET st == EmitAccountsChanged(State, listeners, accounts)
       IN  /\ Len(st.inv) <= MaxInv
           /\ Commit(st)
    /\ UNCHANGED <<phase, hasEth, provider, rendered, listeners>>
    /\ Observe(IF accounts = Null \/ accounts[1] = <<>>
               THEN "accountsChanged empty" ELSE "accountsChanged")

AccountsChanged == \E accounts \in AccountLists : AccountsChangedWith(accounts)

\* window.ethereum emits chainChanged(hex).
ChainChangedWith(hex) ==
    /\ hasEth
    /\ LET st == EmitChainChanged(State, listeners, hex)
       IN  /\ Len(st.inv) <= MaxInv
           /\ Commit(st)
    /\ UNCHANGED <<phase, hasEth, provider, rendered, listeners>>
    /\ Observe("chainChanged")

ChainChanged == \E hex \in ChainHex : ChainChangedWith(hex)

Pending == {"accounts", "signer", "network", "balance"}

\* Variant: the catch block records the failure and issues the account
\* request again (an automatic retry).
catchRetries(st, i, thrown) ==
    [st EXCEPT !.wallet = Failed(st.wallet, thrown),
               !.inv[i] = [NewCall(st.inv[i].prov, "accounts")
                             EXCEPT !.caught = Some(thrown)]]

\* The catch block of call i, lines 133-144, entered with the thrown value.
catch(st, i, thrown) ==
    [st EXCEPT !.wallet = Failed(st.wallet, thrown),
               !.inv[i].pc = "failed",
               !.inv[i].caught = Some(thrown)]

\* Variant: the success update merges into the previous record and keeps a
\* chainId that is already set.
succeedKeepsChain(st, i, balanceWei) ==
    [st EXCEPT !.signer = st.inv[i].nextSigner,
               !.wallet = [Connected(st.inv[i].userAddress[1], st.inv[i].network[1],
                                     balanceWei)
                             EXCEPT !.chainId = IF st.wallet.chainId # Null
                                               THEN st.wallet.chainId ELSE @],
               !.inv[i].pc = "done",
               !.inv[i].balanceWei = Some(balanceWei)]

\* Variant: a result is applied only if no later call has been started since
\* (a sequence-number guard).
succeedIfNewest(st, i, balanceWei) ==
    IF i = Len(st.inv)
    THEN [st EXCEPT !.signer = st.inv[i].nextSigner,
                    !.wallet = Connected(st.inv[i].userAddress[1], st.inv[i].network[1],
                                         balanceWei),
                    !.inv[i].pc = "done",
                    !.inv[i].balanceWei = Some(balanceWei)]
    ELSE [st EXCEPT !.inv[i].pc = "done",
                    !.inv[i].balanceWei = Some(balanceWei)]

\* Variant: a result that arrives after the state was reset is dropped.
succeedUnlessReset(st, i, balanceWei) ==
    IF st.wallet.status = "disconnected"
    THEN [st EXCEPT !.inv[i].pc = "done",
                    !.inv[i].balanceWei = Some(balanceWei)]
    ELSE [st EXCEPT !.signer = st.inv[i].nextSigner,
                    !.wallet = Connected(st.inv[i].userAddress[1], st.inv[i].network[1],
                                         balanceWei),
                    !.inv[i].pc = "done",
                    !.inv[i].balanceWei = Some(balanceWei)]

\* The tail of call i after getBalance resolved, lines 117-132: setSigner
\* and setWallet in one synchronous stretch.
succeed(st, i, balanceWei) ==
    [st EXCEPT !.signer = st.inv[i].nextSigner,
               !.wallet = Connected(st.inv[i].userAddress[1], st.inv[i].network[1],
                                    balanceWei),
               !.inv[i].pc = "done",
               !.inv[i].balanceWei = Some(balanceWei)]

\* The awaited call of invocation i rejects (any of lines 93, 109, 114, 117).
Reject(i) ==
    /\ inv[i].pc \in Pending
    /\ \E thrown \in Thrown : Commit(catch(State, i, thrown))
    /\ UNCHANGED <<phase, hasEth, provider, rendered, listeners>>
    /\ Observe("none")

\* Variant: an empty or absent list is taken as "not connected" and resets
\* the state instead of throwing.
ResolveAccountsWithResets(i, accounts) ==
    /\ inv[i].pc = "accounts"
    /\ IF accounts = Null \/ Len(accounts[1]) = 0
       THEN Commit([resetWalletState(State) EXCEPT !.inv[i].pc = "returned"])
       ELSE /\ inv' = [inv EXCEPT ![i].pc = "signer",
                                   ![i].accounts = accounts,
                                   ![i].userAddress = Some(accounts[1][1])]
            /\ UNCHANGED <<wallet, signer>>
    /\ UNCHANGED <<phase, hasEth, provider, rendered, listeners>>
    /\ Observe("none")

\* eth_requestAccounts resolves with accounts, lines 93-109: an empty or
\* absent list throws, otherwise getSigner is issued for the first account.
ResolveAccountsWith(i, accounts) ==
    /\ inv[i].pc = "accounts"
    /\ IF accounts = Null \/ Len(accounts[1]) = 0
       THEN Commit(catch(State, i, Some(NoAccountsMsg)))
       ELSE /\ inv' = [inv EXCEPT ![i].pc = "signer",
                                   ![i].accounts = accounts,
                                   ![i].userAddress = Some(accounts[1][1])]
            /\ UNCHANGED <<wallet, signer>>
    /\ UNCHANGED <<phase, hasEth, provider, rendered, listeners>>
    /\ Observe("none")

\* eth_requestAccounts resolves with any list the wallet may return.
ResolveAccounts(i) == \E accounts \in AccountLists : ResolveAccountsWith(i, accounts)

\* getSigner resolves, lines 109-114: a fresh signer object for the address.
ResolveSigner(i) ==
    /\ inv[i].pc = "signer"
    /\ inv' = [inv EXCEPT ![i].pc = "network",
                           ![i].nextSigner =
                               Some([address |-> inv[i].userAddress[1], call |-> i])]
    /\ UNCHANGED <<phase, hasEth, provider, rendered, wallet, signer, listeners>>
    /\ Observe("none")

\* getNetwork resolves, lines 114-117.
ResolveNetwork(i) ==
    /\ inv[i].pc = "network"
    /\ \E c \in ChainIds :
          inv' = [inv EXCEPT ![i].pc = "balance", ![i].network = Some([chainId |-> c])]
    /\ UNCHANGED <<phase, hasEth, provider, rendered, wallet, signer, listeners>>
    /\ Observe("none")

\* getBalance resolves, lines 117-132.
ResolveBalance(i) ==
    /\ inv[i].pc = "balance"
    /\ \E b \in Balances : Commit(succeed(State, i, b))
    /\ UNCHANGED <<phase, hasEth, provider, rendered, listeners>>
    /\ Observe("none")

Next ==
    \/ Mount
    \/ Rerender
    \/ Unmount
    \/ InjectEth
    \/ UserConnect
    \/ AccountsChanged
    \/ ChainChanged
    \/ \E i \in 1..Len(inv) : Reject(i)
    \/ \E i \in 1..Len(inv) : ResolveAccounts(i)
    \/ \E i \in 1..Len(inv) : ResolveSigner(i)
    \/ \E i \in 1..Len(inv) : ResolveNetwork(i)
    \/ \E i \in 1..Len(inv) : ResolveBalance(i)

Spec == Init /\ [][Next]_vars

\* The same program with the history switched on.
InitH ==
    /\ phase = "init"
    /\ hasEth \in BOOLEAN
    /\ provider = Null
    /\ rendered = Null
    /\ wallet = InitialWallet
    /\ signer = Null
    /\ listeners = <<>>
    /\ inv = <<>>
    /\ obs = [NoObs EXCEPT !.mode = "before"]

SpecH == InitH /\ [][Next]_vars

\* The same program with the last notification recorded.
InitN ==
    /\ phase = "init"
    /\ hasEth \in BOOLEAN
    /\ provider = Null
    /\ rendered = Null
    /\ wallet = InitialWallet
    /\ signer = Null
    /\ listeners = <<>>
    /\ inv = <<>>
    /\ obs = [NoObs EXCEPT !.mode = "last"]

SpecN == InitN /\ [][Next]_vars

\* The awaited provider call of invocation i settles.
Settle(i) ==
    /\ i \in 1..Len(inv)
    /\ \/ Reject(i)
       \/ ResolveAccounts(i)
       \/ ResolveSigner(i)
       \/ ResolveNetwork(i)
       \/ ResolveBalance(i)

\* The same program with a provider that answers: no awaited call stays
\* pending forever. Calls are started finitely often (MaxInv).
SpecF == Init /\ [][Next]_vars /\ \A i \in 1..MaxInv : WF_vars(Settle(i))

\* The same program with the last reset under calls in flight recorded: the
\* newest call that was in flight when the handler last ran
\* resetWalletState, kept until the step after the last of them has ended.
InitR ==
    /\ phase = "init"
    /\ hasEth \in BOOLEAN
    /\ provider = Null
    /\ rendered = Null
    /\ wallet = InitialWallet
    /\ signer = Null
    /\ listeners = <<>>
    /\ inv = <<>>
    /\ obs = [NoObs EXCEPT !.mode = "reset"]

SpecR == InitR /\ [][Next]_vars

\* What a provider with unchanging answers can be made of.
Scripts ==
    [accounts : AccountLists, chainId : ChainIds, balance : Balances,
     rejectAt : Pending \cup {"none"}, thrown : Thrown]

\* The same program run against a provider that answers every call of a
\* kind alike, one connect call after the other.
InitS ==
    /\ phase = "init"
    /\ hasEth \in BOOLEAN
    /\ provider = Null
    /\ rendered = Null
    /\ wallet = InitialWallet
    /\ signer = Null
    /\ listeners = <<>>
    /\ inv = <<>>
    /\ \E sc \in Scripts : obs = [NoObs EXCEPT !.mode = "script", !.script = Some(sc)]

SpecS == InitS /\ [][Next]_vars

\* ---------------------------------------------------------- properties
HasData(w) == w.address # Null \/ w.chainId # Null \/ w.balanceEth # Null
AllData(w) == w.address # Null /\ w.chainId # Null /\ w.balanceEth # Null
Calls == 1..Len(inv)

\* C1 as stated: address, chainId and the balance are non-null only when
\* status = connected.
C1_DataOnlyWhenConnected ==
    HasData(wallet) => wallet.status = "connected"

\* C1 amended: address, chainId and the balance are non-null only after a
\* connect call has succeeded and never while status = disconnected; they
\* are then all three non-null, under status connected, or under connecting
\* or error as the values left by that earlier success.
C1_DataOnlyAfterSuccess ==
    HasData(wallet) =>
        /\ wallet.status \in {"connected", "connecting", "error"}
        /\ AllData(wallet)
        /\ \E i \in Calls : inv[i].pc = "done"

\* C1 witness: a failed call has left status = error over the address of an
\* earlier successful call.
C1_Witness ==
    /\ wallet.status = "error"
    /\ wallet.address # Null
    /\ \E i \in Calls : inv[i].pc = "failed"

\* C2: the error field is non-null only when status = error; under
\* connecting (an attempt started), connected (an attempt succeeded) and
\* disconnected (reset) it is null.
C2_ErrorOnlyInErrorStatus ==
    /\ wallet.error # Null => wallet.status = "error"
    /\ wallet.status \in {"connecting", "connected", "disconnected"} => wallet.error = Null

\* C2 witness: a new attempt is under way after an earlier call failed, and
\* the error that call had set is gone.
C2_Witness ==
    /\ wallet.status = "connecting"
    /\ wallet.error = Null
    /\ \E i \in Calls : inv[i].pc = "failed" /\ inv[i].caught # Null

\* The record a successful call i must have written, from the values the
\* provider returned to that call.
OwnRecord(c) ==
    [address |-> Some(c.accounts[1][1]),
     chainId |-> Some(c.network[1].chainId.bigint),
     balanceEth |-> Some(formatEther(c.balanceWei[1])),
     status |-> "connected",
     error |-> Null]

Succeeds(i) == inv[i].pc = "balance" /\ inv'[i].pc = "done"
Fails(i) == inv[i].pc \in Pending /\ inv'[i].pc = "failed"

\* C3: the step in which call i succeeds replaces the whole record by
\* {first account returned to i, chainId and balance read by i, connected,
\* error null} and stores the signer obtained by i; and in every state the
\* data fields and the signer all come from one and the same successful call.
C3_SuccessWritesOwnValues ==
    /\ [][\A i \in Calls :
             Succeeds(i) =>
                 /\ wallet' = OwnRecord(inv'[i])
                 /\ signer' = Some([address |-> inv'[i].accounts[1][1], call |-> i])
          ]_vars
    /\ [](HasData(wallet) \/ signer # Null =>
             \E i \in Calls :
                 /\ inv[i].pc = "done"
                 /\ signer = Some([address |-> inv[i].accounts[1][1], call |-> i])
                 /\ wallet.address = OwnRecord(inv[i]).address
                 /\ wallet.chainId = OwnRecord(inv[i]).chainId
                 /\ wallet.balanceEth = OwnRecord(inv[i]).balanceEth)

\* C3 witness: two calls have succeeded with a different account, chain and
\* balance each, and the record shows the first entry of the two-account
\* list one of them was given.
C3_Witness ==
    /\ Len(inv) = 2
    /\ inv[1].pc = "done" /\ inv[2].pc = "done"
    /\ inv[1].userAddress # inv[2].userAddress
    /\ inv[1].network # inv[2].network
    /\ inv[1].balanceWei # inv[2].balanceWei
    /\ wallet.status = "connected"
    /\ wallet.address = Some("0xB")

\* C4 as stated: the step in which call i fails leaves address, chainId,
\* balance and the signer as they were before call i started.
C4_FailureKeepsStateOfStart ==
    [][\A i \in Calls :
          Fails(i) => Snapshot(wallet', signer') = obs.before[i]
      ]_vars

\* C4 amended: the step in which call i fails sets status = error and error
\* = the thrown value's message (the fallback if it has none) and leaves
\* address, chainId, balance and the signer as they were immediately before
\* that step; nothing call i fetched is written.
C4_FailureKeepsCurrentData ==
    [][\A i \in Calls :
          Fails(i) =>
              /\ wallet'.status = "error"
              /\ wallet'.error =
                     Some(IF inv'[i].caught[1] = Null THEN FallbackMsg
                          ELSE inv'[i].caught[1][1])
              /\ Snapshot(wallet', signer') = Snapshot(wallet, signer)
      ]_vars

\* C4 witness: a call that had already fetched an account other than the
\* displayed one has failed on a value without a message; the record shows
\* the fallback message over the data of an earlier success.
C4_Witness ==
    \E i \in Calls :
        /\ inv[i].pc = "failed"
        /\ inv[i].caught = Some(Null)
        /\ inv[i].userAddress # Null
        /\ wallet.status = "error"
        /\ wallet.error = Some(FallbackMsg)
        /\ wallet.address # Null
        /\ wallet.address # inv[i].userAddress

\* C5: once the bootstrap has found no injected provider, in every later
\* state status = error with the no-provider message, no connect button is
\* rendered, no handler is subscribed and no connect call has started.
C5_NoProviderIsTerminal ==
    phase # "init" /\ provider = Null =>
        /\ wallet = [address |-> Null, chainId |-> Null, balanceEth |-> Null,
                     status |-> "error", error |-> Some(NoWalletMsg)]
        /\ signer = Null
        /\ ~connectAffordance
        /\ listeners = <<>>
        /\ inv = <<>>

\* C5 witness: the view was mounted without a provider and a wallet was
\* injected afterwards.
C5_Witness ==
    /\ phase = "mounted"
    /\ provider = Null
    /\ hasEth
    /\ wallet.status = "error"

EmptyLists == {a \in AccountLists : a = Null \/ a[1] = <<>>}
NonEmptyLists == AccountLists \ EmptyLists

\* C6: while the handlers are subscribed, an accountsChanged notification
\* with an empty (or absent) list, in any status, resets the record to
\* {null, null, null, disconnected, null} and the signer to null, and starts
\* no connect call and touches none in flight.
C6_EmptyAccountsResets ==
    [][\A a \in EmptyLists :
          AccountsChangedWith(a) /\ listeners # <<>> =>
              /\ wallet' = [address |-> Null, chainId |-> Null, balanceEth |-> Null,
                            status |-> "disconnected", error |-> Null]
              /\ signer' = Null
              /\ inv' = inv
      ]_vars

\* C6 witness: the record is back at its initial value although one call has
\* succeeded and another is still in flight.
C6_Witness ==
    /\ wallet = InitialWallet
    /\ signer = Null
    /\ \E i \in Calls : inv[i].pc = "done"
    /\ \E i \in Calls : inv[i].pc \in Pending

StartsOneCall ==
    /\ Len(inv') = Len(inv) + 1
    /\ SubSeq(inv', 1, Len(inv)) = inv
    /\ inv'[Len(inv')].pc \in {"accounts", "returned"}
    /\ inv'[Len(inv')].pc = "accounts" <=> rendered # Null

C8_RetryOffered ==
    (/\ phase = "mounted"
     /\ rendered # Null
     /\ wallet.status = "error"
     /\ \E i \in Calls : inv[i].pc = "failed")
        => connectAffordance

Ended(i) == inv[i].pc \in EndedPc

\* C9: when calls overlap, the call that completes last determines the
\* state, whatever the order they started in: a call that completes after a
\* later-started call has already ended still writes its own result (its
\* record and signer on success, status = error over the current data on
\* failure).
C9_LastCompletionWins ==
    [][\A i \in Calls :
          (\E j \in Calls : i < j /\ Ended(j)) =>
              /\ Succeeds(i) =>
                     /\ wallet'.status = "connected"
                     /\ wallet'.address = inv'[i].userAddress
                     /\ wallet'.chainId = Some(inv'[i].network[1].chainId.bigint)
                     /\ wallet'.balanceEth = Some(formatEther(inv'[i].balanceWei[1]))
                     /\ signer' = inv'[i].nextSigner
              /\ Fails(i) =>
                     /\ wallet'.status = "error"
                     /\ wallet'.address = wallet.address
                     /\ signer' = signer
      ]_vars

\* C9 witness: both calls have succeeded with different results, and the
\* record and the signer are those of the call started first, which can only
\* have been written after the later call's success.
C9_Witness ==
    /\ Len(inv) = 2
    /\ inv[1].pc = "done" /\ inv[2].pc = "done"
    /\ inv[1].userAddress # inv[2].userAddress
    /\ inv[1].network # inv[2].network
    /\ inv[1].balanceWei # inv[2].balanceWei
    /\ signer = inv[1].nextSigner
    /\ wallet = OwnRecord(inv[1])

\* C10: against a provider whose answers do not change, two connect calls
\* run to completion one after the other (same captured provider, no reset
\* in between) leave the same record: the record after the second equals
\* the record after the first, on success and on failure alike.
C10_ConnectIdempotent ==
    \A i \in Calls :
        (/\ i + 1 \in Calls
         /\ inv[i].pc \in EndedPc /\ inv[i + 1].pc \in EndedPc
         /\ inv[i].prov = inv[i + 1].prov)
            => /\ obs.after[i] # Null /\ obs.after[i + 1] = obs.after[i]
               /\ Len(inv) = i + 1 => wallet = obs.after[i][1]

\* C10 witness: both calls got as far as the account and the signer and then
\* failed alike on the network read, and the record is the one the first
\* failure left.
C10_Witness ==
    /\ Len(inv) = 2
    /\ inv[1].pc = "failed" /\ inv[2].pc = "failed"
    /\ inv[1].nextSigner # Null /\ inv[2].nextSigner # Null
    /\ wallet.status = "error"
    /\ wallet = obs.after[1][1]

\* C10, the success outcome reached: both calls succeeded.
C10_BothSucceed ==
    /\ Len(inv) = 2
    /\ inv[1].pc = "done" /\ inv[2].pc = "done"
    /\ wallet = obs.after[1][1]

C12_WrongNetworkWarning ==
    /\ wrongNetworkWarning <=>
           (wallet.status = "connected" /\ wallet.chainId # Some(1))
    /\ wallet.chainId = Some(1) => ~wrongNetworkWarning
    /\ wallet.status \in {"disconnected", "connecting", "error"} => ~wrongNetworkWarning

\* C12 witness: a wallet is connected on chain 11155111 and the warning is
\* shown.
C12_Witness ==
    /\ wallet.status = "connected"
    /\ wallet.chainId = Some(11155111)
    /\ wrongNetworkWarning

\* C12, the other side reached: a failed re-read has left status = error
\* over a chainId other than 1, and the warning is not shown.
C12_StaleChainNotShown ==
    /\ wallet.status = "error"
    /\ isWrongNetwork
    /\ ~wrongNetworkWarning

\* C13: within one connect invocation the steps come in a fixed order. The
\* invocation starts with status = connecting and error = null written and
\* the account request pending; then the account request, the signer call,
\* the network call and the balance call are pending one at a time, each
\* issued only when the previous one has resolved; and once a call has
\* failed, or the invocation has ended, it issues nothing more.
C13_FixedOrder ==
    /\ [](\A i \in Calls :
            /\ inv[i].pc \in Pending => Resolved(inv[i]) = AwaitNo(inv[i].pc) - 1
            /\ inv[i].pc = "done" => Resolved(inv[i]) = 4
            /\ inv[i].pc = "returned" => Resolved(inv[i]) = 0
            /\ inv[i].nextSigner # Null => inv[i].userAddress # Null
            /\ inv[i].network # Null => inv[i].nextSigner # Null
            /\ inv[i].balanceWei # Null => inv[i].network # Null)
    /\ [][\A i \in 1..Len(inv') :
            /\ i > Len(inv) /\ inv'[i].pc # "returned" =>
                  /\ inv'[i].pc = "accounts"
                  /\ wallet'.status = "connecting"
                  /\ wallet'.error = Null
            /\ i <= Len(inv) /\ inv'[i] # inv[i] =>
                  /\ inv[i].pc \in Pending
                  /\ \/ inv'[i].pc = "failed" /\ Resolved(inv'[i]) = Resolved(inv[i])
                     \/ /\ inv'[i].pc \in Pending \cup {"done"}
                        /\ AwaitNo(inv'[i].pc) = AwaitNo(inv[i].pc) + 1
         ]_vars

\* C13 witness: one call has gone through all four awaits, another has
\* failed at the network call, with a signer and no network or balance.
C13_Witness ==
    \E i, j \in Calls :
        /\ inv[i].pc = "done"
        /\ inv[j].pc = "failed"
        /\ inv[j].nextSigner # Null
        /\ inv[j].network = Null
        /\ inv[j].balanceWei = Null

\* C14: when the account request resolves with an empty or absent list, the
\* invocation fails with the "no accounts" message: status = error, error =
\* that message, and no signer, network or balance call is issued, then or
\* later.
C14_NoAccountsFails ==
    /\ [][\A i \in Calls : \A accounts \in EmptyLists :
            ResolveAccountsWith(i, accounts) =>
                /\ wallet'.status = "error"
                /\ wallet'.error = Some(NoAccountsMsg)
                /\ inv'[i].pc = "failed"
                /\ inv'[i].caught = Some(Some(NoAccountsMsg))
                /\ Resolved(inv'[i]) = 0
         ]_vars
    /\ [](\A i \in Calls :
            inv[i].caught = Some(Some(NoAccountsMsg)) =>
                inv[i].pc = "failed" /\ Resolved(inv[i]) = 0)

\* C14 witness: a call has failed with the "no accounts" message and the
\* record shows it.
C14_Witness ==
    \E i \in Calls :
        /\ inv[i].caught = Some(Some(NoAccountsMsg))
        /\ wallet.status = "error"
        /\ wallet.error = Some(NoAccountsMsg)

\* A step in which call i leaves its await: the awaited call has resolved
\* or rejected.
Settles(i) == inv[i].pc \in Pending /\ inv'[i].pc # inv[i].pc

\* C15: a connect invocation whose provider call never resolves stalls only
\* itself. Nothing but the settling of its own awaited call moves it (no
\* timeout, no cancellation by a later call, a notification or a reset) and
\* it writes nothing while it waits: every change of the record or of the
\* signer is the completion of some call whose await has settled, the start
\* of a call, a reset by an empty accountsChanged, or the bootstrap; so with
\* nothing else writing, status stays connecting.
C15_HungCallStallsOnlyItself ==
    /\ [][\A i \in Calls :
            /\ inv'[i] # inv[i] =>
                  /\ Settles(i)
                  /\ Len(inv') = Len(inv)
                  /\ \A j \in Calls \ {i} : inv'[j] = inv[j]
            /\ inv[i].pc \in Pending /\ inv'[i] = inv[i]
                  /\ (wallet' # wallet \/ signer' # signer) =>
                  \/ \E j \in Calls \ {i} : Settles(j) /\ inv'[j].pc \in {"done", "failed"}
                  \/ Len(inv') = Len(inv) + 1
                  \/ inv' = inv /\ wallet' = InitialWallet /\ signer' = Null
         ]_vars

\* C15, the rest of the view goes on: while a call waits, every other call
\* in flight can still settle and an empty accountsChanged is still
\* delivered.
C15_OthersStayEnabled ==
    \A i \in Calls : inv[i].pc \in Pending =>
        /\ \A j \in Calls \ {i} : inv[j].pc \in Pending => ENABLED Reject(j)
        /\ \A j \in Calls \ {i} : inv[j].pc = "balance" => ENABLED ResolveBalance(j)
        /\ hasEth /\ listeners # <<>> /\ wallet # InitialWallet
              => ENABLED AccountsChangedWith(Some(<<>>))

\* C15 witness: the first call still waits for its account request while a
\* call started after it has run to completion and connected the wallet.
C15_Witness ==
    /\ Len(inv) = 2
    /\ inv[1].pc = "accounts"
    /\ inv[2].pc = "done"
    /\ wallet.status = "connected"

\* C15, reset under a hung call: the first call still waits while an empty
\* accountsChanged has reset what a later call had written.
C15_ResetWhileHung ==
    /\ Len(inv) = 2
    /\ inv[1].pc = "accounts"
    /\ inv[2].pc = "done"
    /\ wallet = InitialWallet
    /\ signer = Null

\* Under SpecR: the subscribed handler has run resetWalletState while calls
\* were in flight, the newest of them call obs.last.calls, and they had not
\* all ended one step ago. A call up to obs.last.calls that leaves an await
\* now was in flight at that reset.
ResetSeen == obs.last.op = "accountsChanged empty"

\* The record and the signer are as resetWalletState leaves them, in the
\* mounted view.
AsReset == phase # "init" /\ wallet = InitialWallet /\ signer = Null

\* C16 as stated: once an empty accountsChanged has reset the state, it is
\* changed only by a connect invocation started after the reset (its start
\* or one of its steps), and a step of an invocation that was in flight at
\* the reset changes neither the record nor the signer.
C16_InFlightCallsNeverWrite ==
    [][/\ AsReset /\ (wallet' # wallet \/ signer' # signer) =>
             \/ Len(inv') > Len(inv)
             \/ \E i \in Calls :
                    Settles(i) /\ ~(ResetSeen /\ i <= obs.last.calls)
       /\ ResetSeen =>
             \A i \in Calls :
                 i <= obs.last.calls /\ Settles(i) => UNCHANGED <<wallet, signer>>
      ]_vars

\* C16 amended: once an empty accountsChanged has reset the state, it stays
\* as reset until a connect invocation writes, whether started after the
\* reset or in flight at the reset: an invocation in flight at the reset
\* still writes its completion, its own record and signer on success, and
\* status = error with its message over the reset data on failure.
C16_ResetHoldsUntilACallWrites ==
    [][/\ AsReset /\ (wallet' # wallet \/ signer' # signer) =>
             \/ Len(inv') > Len(inv)
             \/ \E i \in Calls : Succeeds(i) \/ Fails(i)
       /\ ResetSeen =>
             \A i \in Calls :
                 i <= obs.last.calls =>
                     /\ Succeeds(i) =>
                           wallet' = OwnRecord(inv'[i]) /\ signer' = inv'[i].nextSigner
                     /\ Fails(i) =>
                           /\ wallet' = Failed(wallet, inv'[i].caught[1])
                           /\ signer' = signer
      ]_vars

\* C16 witness: the signer in place is the one of a call that was in flight
\* at the last reset: that call has completed after the reset and connected
\* the wallet again.
C16_Witness ==
    /\ ResetSeen
    /\ \E i \in Calls :
          /\ i <= obs.last.calls
          /\ inv[i].pc = "done"
          /\ signer = inv[i].nextSigner
          /\ wallet = OwnRecord(inv[i])

\* C17: in every reachable state, status = connected implies address,
\* chainId and balance all non-null and error null, and status =
\* disconnected implies address, chainId, balance and error all null.
C17_StatusFixesFields ==
    /\ wallet.status = "connected" =>
           /\ wallet.address # Null
           /\ wallet.chainId # Null
           /\ wallet.balanceEth # Null
           /\ wallet.error = Null
    /\ wallet.status = "disconnected" =>
           /\ wallet.address = Null
           /\ wallet.chainId = Null
           /\ wallet.balanceEth = Null
           /\ wallet.error = Null

\* C17 witness: the wallet is connected by one call while another attempt
\* has failed.
C17_Witness ==
    /\ wallet.status = "connected"
    /\ AllData(wallet)
    /\ \E i, j \in Calls : inv[i].pc = "done" /\ inv[j].pc = "failed"

\* C17, the other status reached: disconnected by a reset after a success.
C17_DisconnectedAfterSuccess ==
    /\ wallet.status = "disconnected"
    /\ \E i \in Calls : inv[i].pc = "done"

\* C18: in every reachable state the stored signer is non-null exactly
\* when address is non-null, and it is then the signer some connect call
\* obtained for that same address, the call that wrote the address.
C18_SignerMatchesAddress ==
    /\ signer # Null <=> wallet.address # Null
    /\ signer # Null =>
           /\ signer[1].address = wallet.address[1]
           /\ signer[1].call \in Calls
           /\ inv[signer[1].call].pc = "done"
           /\ inv[signer[1].call].nextSigner = signer
           /\ inv[signer[1].call].userAddress = wallet.address

\* C18 witness: two calls obtained signers for different addresses, one
\* succeeded and the other failed afterwards; the signer in place is the
\* one of the call that succeeded, under status = error.
C18_Witness ==
    /\ wallet.status = "error"
    /\ signer # Null
    /\ \E i, j \in Calls :
          /\ inv[i].pc = "done"
          /\ signer = inv[i].nextSigner
          /\ inv[j].pc = "failed"
          /\ inv[j].nextSigner # Null
          /\ inv[j].userAddress # inv[i].userAddress

\* C18, after a reset: no signer and no address although a call succeeded.
C18_NoSignerAfterReset ==
    /\ signer = Null
    /\ wallet.address = Null
    /\ \E i \in Calls : inv[i].pc = "done"

\* C19: in every reachable state, status = connecting implies that at
\* least one connect invocation is still in flight.
C19_ConnectingHasCallInFlight ==
    wallet.status = "connecting" => \E i \in Calls : inv[i].pc \in Pending

\* C19 witness: status = connecting with one call ended and another still
\* in flight.
C19_Witness ==
    /\ wallet.status = "connecting"
    /\ \E i, j \in Calls : inv[i].pc \in EndedPc /\ inv[j].pc \in Pending

\* C19, the converse fails: a call is in flight under each other status.
C19_InFlightWhileConnected ==
    wallet.status = "connected" /\ \E i \in Calls : inv[i].pc \in Pending

AllEnded == \A i \in Calls : inv[i].pc \in EndedPc

\* C20: when every provider call eventually resolves or rejects and calls
\* are started finitely often, every connect invocation eventually ends,
\* with one completion write (the step in which it ends writes status
\* connected or error, and it takes no step after it), and the state
\* eventually settles with no call in flight and status connected, error or
\* disconnected, never connecting.
C20_EveryCallTerminates ==
    /\ \A i \in 1..MaxInv :
          (i \in Calls /\ inv[i].pc \in Pending)
              ~> (i \in Calls /\ inv[i].pc \in {"done", "failed"})
    /\ <>[](AllEnded /\ wallet.status \in {"connected", "error", "disconnected"})
    /\ [][\A i \in Calls :
            /\ Settles(i) /\ inv'[i].pc \in EndedPc =>
                  /\ inv'[i].pc = "done" => wallet'.status = "connected"
                  /\ inv'[i].pc = "failed" => wallet'.status = "error"
            /\ inv[i].pc \in EndedPc => inv'[i] = inv[i]
         ]_vars

\* C20 witness: every call that was started has ended, one by success and
\* one by failure, and the status has settled.
C20_Witness ==
    /\ Len(inv) >= 2
    /\ AllEnded
    /\ \E i, j \in Calls : inv[i].pc = "done" /\ inv[j].pc = "failed"
    /\ wallet.status \in {"connected", "error", "disconnected"}

TypeOK ==
    /\ phase \in {"init", "mounted", "unmounted"}
    /\ wallet.status \in {"disconnected", "connecting", "connected", "error"}
    /\ Len(inv) <= MaxInv

====
